---------------------------- MODULE Spec2Model ----------------------------
(***************************************************************************)
(* NeuralSemanticRouter of HydraulikDoc AI (src/app.py): query             *)
(* normalisation, domain classification and ontology-driven query          *)
(* expansion, and query_knowledge_base: retriever selection, context       *)
(* assembly, the generator call and source extraction.                     *)
(*                                                                         *)
(* A Python str is modelled as a sequence of atoms.  An atom is either a   *)
(* single separator character (whitespace or punctuation) or a maximal     *)
(* fragment of characters that the normaliser keeps (letters, digits, '_', *)
(* '-', '.', ':', '/').  Tokens are TLA+ strings obtained by concatenating *)
(* the fragments between whitespace.  Weights, boosts and confidence are   *)
(* integers in hundredths (1.5 is 150).                                    *)
(***************************************************************************)
EXTENDS Integers, Sequences, FiniteSets, TLC

VARIABLES
  call,              \* the router method that returned last ("init" before any call)
  text,              \* the argument of that call
  fedBack,           \* TRUE when the argument was the result of the previous call
  normalized,        \* the string returned by normalize_query
  hydraulic_score,   \* classify_domain's local hydraulic_score at return
  appliance_score,   \* classify_domain's local appliance_score at return
  domain,            \* the QueryDomain returned by classify_domain / expand_query
  expansion_terms,   \* expand_query's local expansion_terms at return
  expanded,          \* the expanded string returned by expand_query
  confidence,        \* the confidence returned by expand_query
  memo               \* an earlier expand_query call: [text, expanded, domain, confidence]

routerVars == <<call, text, fedBack, normalized, hydraulic_score, appliance_score,
                domain, expansion_terms, expanded, confidence>>

\* query_knowledge_base and what it reads
VARIABLES
  BM25_AVAILABLE,    \* module global set by the optional import of the BM25 retriever
  nodes_for_bm25,    \* st.session_state.nodes_for_bm25
  fault,             \* the call of this query that raises, "none" when no call does
  vector_results,    \* what the vector retriever returns for the expanded query
  bm25_results,      \* what the BM25 retriever returns for the expanded query
  retriever,         \* the retriever the query retrieves with: "vector" or "fusion"
  retrieved_nodes,   \* local retrieved_nodes
  context_str,       \* local context_str, after the truncation
  full_query,        \* the prompt given to the generator
  sources,           \* local sources
  result,            \* the returned tuple (answer, source list)
  outcome,           \* "idle", "returned", or "raised" when an exception leaves the call
  log,               \* the entries logged by this query, in order
  trace              \* the external calls of this query, in order

queryVars == <<BM25_AVAILABLE, nodes_for_bm25, fault, vector_results, bm25_results,
               retriever, retrieved_nodes, context_str, full_query, sources, result,
               outcome, log, trace>>

\* the class attributes of NeuralSemanticRouter, shared by all requests
VARIABLES
  ontology_store     \* [hydraulic, appliance, rules]: the two ontologies and the rule list

\* st.session_state, and the Qdrant collection behind the index
VARIABLES
  authenticated,     \* st.session_state.authenticated
  user,              \* st.session_state.user: the username, or NoUser for None
  messages,          \* st.session_state.messages
  index,             \* st.session_state.index: NoIndex for None, else the index object
  all_documents,     \* st.session_state.all_documents
  uploaded_files,    \* st.session_state.uploaded_files: filename -> number of pages
  is_ready,          \* st.session_state.is_ready
  collection,        \* the points of collection "hydraulik_enterprise_v4" of the client
  handler            \* the handler that ran in the last script run

sessionVars == <<authenticated, user, messages, index, all_documents, uploaded_files,
                 is_ready, collection, handler>>

\* fluid_advisor.assess_fluid
VARIABLES
  sample,            \* the FluidSample given to assess_fluid
  assessment         \* the FluidAssessment it returned, NoAssessment before the call

fluidVars == <<sample, assessment>>

vars == <<routerVars, memo, queryVars, ontology_store, sessionVars, fluidVars>>

\* ------------------------------------------------------------------ bounds
\* longest raw text (in atoms) fed to the normaliser
MaxLen == 4

\* most words in a generated query
MaxWords == 3

\* number of string-hash seeds, each giving one iteration order of a set of str
HashSeeds == 3

\* ------------------------------------------------------------ QueryDomain
HYDRAULIC == "hydraulic"

APPLIANCE == "appliance"

HYBRID == "hybrid"

UNKNOWN == "unknown"

QueryDomain == {HYDRAULIC, APPLIANCE, HYBRID, UNKNOWN}

\* -------------------------------------------------------------- ontologies
HYDRAULIC_ONTOLOGY ==
  <<
     [name |-> "druck",
      keywords |-> <<"druck", "pressure", "bar", "mpa", "psi">>,
      synonyms |-> <<"betriebsdruck", "prüfdruck", "berstdruck", "p_max", "pmax",
                   "druckbereich">>,
      context_terms |-> <<"manometer", "druckmessung", "prüfung", "sicherheit">>,
      weight |-> 150],
     [name |-> "volumenstrom",
      keywords |-> <<"volumenstrom", "flow", "q", "l/min", "durchfluss">>,
      synonyms |-> <<"förderstrom", "flow rate", "lmin", "durchsatz", "förderleistung">>,
      context_terms |-> <<"pumpe", "förderung", "volumetrisch">>,
      weight |-> 130],
     [name |-> "dichtung",
      keywords |-> <<"dichtung", "seal", "dichtungssatz">>,
      synonyms |-> <<"dichtsystem", "sealing kit", "abdichtung", "o-ring">>,
      context_terms |-> <<"dichtungsmaterial", "dichtprofil", "elastomer">>,
      weight |-> 120],
     [name |-> "typenschlüssel",
      keywords |-> <<"typenschlüssel", "type code", "bestellangaben", "code">>,
      synonyms |-> <<"order code", "artikelnummer", "typenbezeichnung", "bestellschlüssel">>,
      context_terms |-> <<"konfiguration", "ausführung", "variante">>,
      weight |-> 140]
  >>

APPLIANCE_ONTOLOGY ==
  <<
     [name |-> "temperaturanzeige",
      keywords |-> <<"temperaturanzeige", "display", "anzeige", "temperatur">>,
      synonyms |-> <<"anzeigeeinheit", "kerntemperaturanzeige", "temperatur-display",
                   "temperaturwert", "digitalanzeige">>,
      context_terms |-> <<"lcd", "led", "grad", "celsius", "fahrenheit">>,
      weight |-> 160],
     [name |-> "sensor",
      keywords |-> <<"sensor", "sonde", "fühler", "temperatursonde">>,
      synonyms |-> <<"bakesensor", "backsensor", "temperaturfühler", "kerntemperaturfühler",
                   "temperatursondenbuchse", "sensorbuchse", "steckbuchse",
                   "sonde anschließen">>,
      context_terms |-> <<"stecker", "buchse", "kabel", "messwert", "pt100", "ntc",
                        "messgerät">>,
      weight |-> 150],
     [name |-> "sens",
      keywords |-> <<"sens", "sens anzeige", "sondenbetrieb">>,
      synonyms |-> <<"sens display", "sens symbol", "sondenbetriebssymbol">>,
      context_terms |-> <<"anschließen", "buchse", "normal", "fehler">>,
      weight |-> 180],
     [name |-> "programm",
      keywords |-> <<"programm", "funktion", "modus", "automatik">>,
      synonyms |-> <<"auto bake", "pro bake", "backprogramm", "garprogramm",
                   "automatikprogramm", "betriebsart">>,
      context_terms |-> <<"einstellung", "programmauswahl", "timer">>,
      weight |-> 110],
     [name |-> "fehlercode",
      keywords |-> <<"fehlercode", "error", "störung", "fehler">>,
      synonyms |-> <<"störungscode", "error code", "fehlermeldung", "e-", "f-",
                   "diagnostic">>,
      context_terms |-> <<"diagnose", "fehlersuche", "störungsbeseitigung", "reset",
                        "warnung">>,
      weight |-> 140]
  >>

CROSS_DOMAIN_RULES ==
  <<
     [kind |-> "all",
      condition |-> <<"temperaturanzeige", "sensor">>,
      add_terms |-> <<"temperatursonde", "bakesensor", "temperatursondenbuchse",
                   "anzeigeeinheit", "display", "sens", "steckbuchse", "buchse">>,
      boost |-> 190],
     [kind |-> "any",
      condition |-> <<"fehlercode", "error", "störung", "e-", "f-">>,
      add_terms |-> <<"display", "anzeigeeinheit", "störungscode", "codeanzeige", "reset",
                   "fehlermeldung">>,
      boost |-> 130],
     [kind |-> "all",
      condition |-> <<"druck", "dichtung">>,
      add_terms |-> <<"betriebsdruck", "dichtungssystem", "druckfestigkeit", "abdichtung",
                   "prüfdruck">>,
      boost |-> 140]
  >>

SortedVocabulary ==
  <<"12", "abdichtung", "anschließen", "anzeige", "anzeigeeinheit", "artikelnummer",
     "ausführung", "auto bake", "automatik", "automatikprogramm", "backprogramm",
     "backsensor", "bakesensor", "bar", "berstdruck", "bestellangaben", "bestellschlüssel",
     "betriebsart", "betriebsdruck", "buchse", "cdh2", "celsius", "code", "codeanzeige",
     "diagnose", "diagnostic", "dichtprofil", "dichtsystem", "dichtung",
     "dichtungsmaterial", "dichtungssatz", "dichtungssystem", "digitalanzeige", "display",
     "druck", "druckbereich", "druckfestigkeit", "druckmessung", "drucksensor",
     "durchfluss", "durchsatz", "e-", "e-12", "einstellung", "elastomer", "error",
     "error code", "f-", "fahrenheit", "fehler", "fehlercode", "fehlermeldung",
     "fehlersuche", "flow", "flow rate", "funktion", "förderleistung", "förderstrom",
     "förderung", "fühler", "für", "garprogramm", "grad", "hallo", "kabel",
     "kerntemperaturanzeige", "kerntemperaturfühler", "konfiguration", "l/min", "lcd",
     "led", "lmin", "manometer", "messgerät", "messwert", "modus", "mpa", "nenndruck",
     "normal", "ntc", "o-ring", "order code", "p_max", "pmax", "pressure", "pro bake",
     "programm", "programmauswahl", "prüfdruck", "prüfung", "psi", "pt100", "pumpe", "q",
     "reset", "seal", "sealing kit", "sens", "sens anzeige", "sens display", "sens symbol",
     "sensor", "sensorbuchse", "sicherheit", "sonde", "sonde anschließen", "sondenbetrieb",
     "sondenbetriebssymbol", "steckbuchse", "stecker", "störung", "störungsbeseitigung",
     "störungscode", "temperatur", "temperatur-display", "temperaturanzeige",
     "temperaturfühler", "temperatursonde", "temperatursondenbuchse", "temperaturwert",
     "timer", "type", "type code", "typenbezeichnung", "typenschlüssel", "variante", "volumenstrom",
     "volumetrisch", "warnung", "welcher">>

\* ------------------------------------------------------- character classes
\* characters matched by \s (and removed by str.strip)
Whitespace == {" ", "\t"}

\* characters matched by [^\w\s\-.:/äöüß], i.e. the ones the normaliser replaces
Punctuation == {"?", "!", ","}

\* str.lower on the fragments that contain an upper-case letter
LowerCase ==
  ("B" :> "b") @@ ("Druck" :> "druck") @@ ("Sensor" :> "sensor") @@
  ("Fehlercode" :> "fehlercode") @@ ("E-12" :> "e-12") @@ ("E-" :> "e-") @@
  ("Hallo" :> "hallo") @@ ("Nenndruck" :> "nenndruck") @@ ("Welcher" :> "welcher") @@
  ("CDH2" :> "cdh2") @@ ("Temperaturanzeige" :> "temperaturanzeige")

Lower(t) == [i \in 1..Len(t) |-> IF t[i] \in DOMAIN LowerCase THEN LowerCase[t[i]] ELSE t[i]]

RECURSIVE LStrip(_)
LStrip(t) == IF t # <<>> /\ Head(t) \in Whitespace THEN LStrip(Tail(t)) ELSE t

RECURSIVE RStrip(_)
RStrip(t) ==
  IF t # <<>> /\ t[Len(t)] \in Whitespace THEN RStrip(SubSeq(t, 1, Len(t) - 1)) ELSE t

Strip(t) == RStrip(LStrip(t))

\* re.sub(r"[^\w\s\-.:/äöüß]", " ", t)
SubPunctuation(t) == [i \in 1..Len(t) |-> IF t[i] \in Punctuation THEN " " ELSE t[i]]

\* re.sub(r"\s+", " ", t)
RECURSIVE SubWhitespace(_)
SubWhitespace(t) ==
  IF t = <<>> THEN <<>>
  ELSE IF Head(t) \in Whitespace THEN <<" ">> \o SubWhitespace(LStrip(Tail(t)))
  ELSE <<Head(t)>> \o SubWhitespace(Tail(t))

normalize_query(t) == SubWhitespace(SubPunctuation(Strip(Lower(t))))

\* str.split(): the maximal runs of non-whitespace, each run one token
RECURSIVE SplitFrom(_, _)
SplitFrom(t, cur) ==
  IF t = <<>> THEN (IF cur = "" THEN <<>> ELSE <<cur>>)
  ELSE IF Head(t) \in Whitespace
       THEN (IF cur = "" THEN <<>> ELSE <<cur>>) \o SplitFrom(Tail(t), "")
       ELSE SplitFrom(Tail(t), cur \o Head(t))

Split(t) == SplitFrom(t, "")

Range(s) == {s[i] : i \in 1..Len(s)}

\* set(normalized.split())
Tokens(t) == Range(Split(t))

\* ------------------------------------------------------------ classify_domain
\* slip: a keyword matches when it occurs inside a token
MatchesSubstring(pattern, tokens) ==
  LET Within(k, t) == \E i \in 1..(Len(t) - Len(k) + 1) : SubSeq(t, i, i + Len(k) - 1) = k
  IN  \E i \in 1..Len(pattern.keywords) : \E t \in tokens : Within(pattern.keywords[i], t)

\* any(kw in tokens for kw in pattern.keywords), tokens a set of strings
Matches(pattern, tokens) ==
  \E i \in 1..Len(pattern.keywords) : pattern.keywords[i] \in tokens

\* sum(pattern.weight for pattern in ontology.values() if any(...))
RECURSIVE Score(_, _)
Score(ontology, tokens) ==
  IF ontology = <<>> THEN 0
  ELSE (IF Matches(Head(ontology), tokens) THEN Head(ontology).weight ELSE 0)
       + Score(Tail(ontology), tokens)

\* slip: 'or' in place of 'and' in the HYBRID test
DecideEitherHybrid(h, a) ==
  IF h > 0 \/ a > 0 THEN HYBRID
  ELSE IF h > a THEN HYDRAULIC
  ELSE IF a > h THEN APPLIANCE
  ELSE UNKNOWN

\* slip: the comparisons come first, so that a positive tie reaches the else branch
DecideTieUnknown(h, a) ==
  IF h > a /\ a = 0 THEN HYDRAULIC
  ELSE IF a > h /\ h = 0 THEN APPLIANCE
  ELSE IF h # a THEN HYBRID
  ELSE UNKNOWN

\* the if / elif chain on the two scores
Decide(h, a) ==
  IF h > 0 /\ a > 0 THEN HYBRID
  ELSE IF h > a THEN HYDRAULIC
  ELSE IF a > h THEN APPLIANCE
  ELSE UNKNOWN

classify_domain(query) ==
  LET tokens == Tokens(normalize_query(query))
      h == Score(HYDRAULIC_ONTOLOGY, tokens)
      a == Score(APPLIANCE_ONTOLOGY, tokens)
  IN  [hydraulic_score |-> h, appliance_score |-> a, domain |-> Decide(h, a)]

\* ----------------------------------------------------------------- sorting
\* position of a term in Python's code-point order of str
TermRank == [t \in Range(SortedVocabulary) |->
               CHOOSE i \in 1..Len(SortedVocabulary) : SortedVocabulary[i] = t]

\* hash(str) under one hash seed: a seed-dependent injective scrambling
StrHash(t, seed) == (TermRank[t] * (2 * seed + 1) + 7 * seed) % 251

RECURSIVE HashInsert(_, _, _)
HashInsert(x, s, seed) ==
  IF s = <<>> THEN <<x>>
  ELSE IF StrHash(x, seed) <= StrHash(Head(s), seed) THEN <<x>> \o s
  ELSE <<Head(s)>> \o HashInsert(x, Tail(s), seed)

\* the order in which a set of str is iterated: by hash slot
RECURSIVE IterOrder(_, _)
IterOrder(S, seed) ==
  IF S = {} THEN <<>>
  ELSE LET x == CHOOSE x \in S : TRUE
       IN  HashInsert(x, IterOrder(S \ {x}, seed), seed)

RECURSIVE Insert(_, _)
Insert(x, s) ==
  IF s = <<>> THEN <<x>>
  ELSE IF TermRank[x] <= TermRank[Head(s)] THEN <<x>> \o s
  ELSE <<Head(s)>> \o Insert(x, Tail(s))

\* slip: the terms are joined in iteration order
unsorted(l) == l

\* sorted(iterable of str)
RECURSIVE sorted(_)
sorted(l) == IF l = <<>> THEN <<>> ELSE Insert(Head(l), sorted(Tail(l)))

\* the terms of the ontology that contain a space, as text
MultiWord ==
  ("auto bake" :> <<"auto", " ", "bake">>) @@ ("error code" :> <<"error", " ", "code">>) @@
  ("flow rate" :> <<"flow", " ", "rate">>) @@ ("order code" :> <<"order", " ", "code">>) @@
  ("pro bake" :> <<"pro", " ", "bake">>) @@ ("sealing kit" :> <<"sealing", " ", "kit">>) @@
  ("sens anzeige" :> <<"sens", " ", "anzeige">>) @@
  ("sens display" :> <<"sens", " ", "display">>) @@
  ("sens symbol" :> <<"sens", " ", "symbol">>) @@
  ("sonde anschließen" :> <<"sonde", " ", "anschließen">>) @@
  ("type code" :> <<"type", " ", "code">>)

TextOf(term) == IF term \in DOMAIN MultiWord THEN MultiWord[term] ELSE <<term>>

\* " ".join(list of str)
RECURSIVE Join(_)
Join(l) ==
  IF l = <<>> THEN <<>>
  ELSE IF Len(l) = 1 THEN TextOf(l[1])
  ELSE TextOf(Head(l)) \o <<" ">> \o Join(Tail(l))

\* --------------------------------------------------------------- expand_query
Min(a, b) == IF a < b THEN a ELSE b

\* slip: the slice is dropped
ContextSliceAll(pattern) == pattern.context_terms

\* pattern.context_terms[:3]
ContextSlice(pattern) ==
  SubSeq(pattern.context_terms, 1, Min(3, Len(pattern.context_terms)))

\* ------------------------------------------------------- the shared store
\* the class attributes as defined when the class body runs
OntologyStore ==
  [hydraulic |-> HYDRAULIC_ONTOLOGY, appliance |-> APPLIANCE_ONTOLOGY,
   rules |-> CROSS_DOMAIN_RULES]

\* slip: expansion grows the synonyms list of a triggered pattern in place
StoreAfterExpandInPlace(store, tokens, d) ==
  LET ExtendSynonyms(ontology) ==
        [k \in 1..Len(ontology) |->
           IF Matches(ontology[k], tokens)
           THEN [ontology[k] EXCEPT !.synonyms = @ \o ContextSlice(ontology[k])]
           ELSE ontology[k]]
  IN  [store EXCEPT
         !.hydraulic = IF d \in {HYDRAULIC, HYBRID} THEN ExtendSynonyms(@) ELSE @,
         !.appliance = IF d \in {APPLIANCE, HYBRID} THEN ExtendSynonyms(@) ELSE @]

\* the store after expand_query: every update() call has the local set
\* expansion_terms = set(tokens) as receiver, and context_terms[:3] is a copy
StoreAfterExpand(store, tokens, d) == store

\* the store after classify_domain: the patterns are only read in generators
StoreAfterClassify(store, tokens) == store

\* for pattern in ontology.values(): if any(...): update, update, confidence +=
RECURSIVE ExpandOntology(_, _, _)
ExpandOntology(ontology, tokens, acc) ==
  IF ontology = <<>> THEN acc
  ELSE LET p == Head(ontology)
           step == IF Matches(p, tokens)
                   THEN [terms |-> acc.terms \cup Range(p.synonyms)
                                             \cup Range(ContextSlice(p)),
                         confidence |-> acc.confidence + p.weight]
                   ELSE acc
       IN  ExpandOntology(Tail(ontology), tokens, step)

\* slip: every condition is evaluated with all()
RuleFiresAllOnly(rule, terms) ==
  \A i \in 1..Len(rule.condition) : rule.condition[i] \in terms

\* the condition of one rule against the current expansion_terms
RuleFires(rule, terms) ==
  IF rule.kind = "all"
  THEN \A i \in 1..Len(rule.condition) : rule.condition[i] \in terms
  ELSE \E i \in 1..Len(rule.condition) : rule.condition[i] \in terms

\* slip: the 0.5 factor of the "any" branch is dropped
RuleGainFull(rule) == rule.boost

\* slip: every rule adds half its boost
RuleGainHalf(rule) == rule.boost \div 2

\* rule["boost"] for "all", rule["boost"] * 0.5 for "any"
RuleGain(rule) == IF rule.kind = "all" THEN rule.boost ELSE rule.boost \div 2

\* slip: the loop is left at the first rule that fires
RECURSIVE ApplyRulesFirstOnly(_, _)
ApplyRulesFirstOnly(rules, acc) ==
  IF rules = <<>> THEN acc
  ELSE LET r == Head(rules)
       IN  IF RuleFires(r, acc.terms)
           THEN [terms |-> acc.terms \cup Range(r.add_terms),
                 confidence |-> acc.confidence + RuleGain(r)]
           ELSE ApplyRulesFirstOnly(Tail(rules), acc)

\* for rule in cls.CROSS_DOMAIN_RULES: ...
RECURSIVE ApplyRules(_, _)
ApplyRules(rules, acc) ==
  IF rules = <<>> THEN acc
  ELSE LET r == Head(rules)
           step == IF RuleFires(r, acc.terms)
                   THEN [terms |-> acc.terms \cup Range(r.add_terms),
                         confidence |-> acc.confidence + RuleGain(r)]
                   ELSE acc
       IN  ApplyRules(Tail(rules), step)

\* slip: the expansion starts from the empty set
SeedTermsEmpty(tokens) == {}

\* slip: the rule conditions are tested against the original tokens
RECURSIVE ApplyRulesOnTokens(_, _, _)
ApplyRulesOnTokens(rules, acc, tokens) ==
  IF rules = <<>> THEN acc
  ELSE LET r == Head(rules)
           step == IF RuleFires(r, tokens)
                   THEN [terms |-> acc.terms \cup Range(r.add_terms),
                         confidence |-> acc.confidence + RuleGain(r)]
                   ELSE acc
       IN  ApplyRulesOnTokens(Tail(rules), step, tokens)

\* expansion_terms = set(tokens)
SeedTerms(tokens) == tokens

expand_queryRulesOnTokens(query, seed) ==
  LET tokens == Tokens(normalize_query(query))
      c == classify_domain(query)
      start == [terms |-> SeedTerms(tokens), confidence |-> 0]
      hyd == IF c.domain \in {HYDRAULIC, HYBRID}
             THEN ExpandOntology(HYDRAULIC_ONTOLOGY, tokens, start) ELSE start
      app == IF c.domain \in {APPLIANCE, HYBRID}
             THEN ExpandOntology(APPLIANCE_ONTOLOGY, tokens, hyd) ELSE hyd
      fin == ApplyRulesOnTokens(CROSS_DOMAIN_RULES, app, tokens)
  IN  [expanded |-> Join(sorted(IterOrder(fin.terms, seed))),
       domain |-> c.domain,
       confidence |-> fin.confidence,
       expansion_terms |-> fin.terms,
       hydraulic_score |-> c.hydraulic_score,
       appliance_score |-> c.appliance_score]

expand_query(query, seed) ==
  LET tokens == Tokens(normalize_query(query))
      c == classify_domain(query)
      start == [terms |-> SeedTerms(tokens), confidence |-> 0]
      hyd == IF c.domain \in {HYDRAULIC, HYBRID}
             THEN ExpandOntology(HYDRAULIC_ONTOLOGY, tokens, start) ELSE start
      app == IF c.domain \in {APPLIANCE, HYBRID}
             THEN ExpandOntology(APPLIANCE_ONTOLOGY, tokens, hyd) ELSE hyd
      fin == ApplyRules(CROSS_DOMAIN_RULES, app)
  IN  [expanded |-> Join(sorted(IterOrder(fin.terms, seed))),
       domain |-> c.domain,
       confidence |-> fin.confidence,
       expansion_terms |-> fin.terms,
       hydraulic_score |-> c.hydraulic_score,
       appliance_score |-> c.appliance_score]

\* ------------------------------------------------------------------- inputs
\* the atoms of the raw texts given to the normaliser
NormAlphabet == {"a", "B", "-", " ", "\t", "?"}

NormTexts == UNION {[1..n -> NormAlphabet] : n \in 0..MaxLen}

\* the words of the generated queries
QueryWords ==
  <<"Druck", "dichtung", "code", "Sensor", "temperaturanzeige", "fehler", "e-", "Hallo",
    "sicherheit", "sens">>

\* the words with the given positions of QueryWords, separated by one space
RECURSIVE JoinWords(_)
JoinWords(S) ==
  LET i == CHOOSE i \in S : \A j \in S : i <= j
  IN  IF S = {i} THEN <<QueryWords[i]>>
      ELSE <<QueryWords[i], " ">> \o JoinWords(S \ {i})

GeneratedQueries ==
  {JoinWords(S) : S \in {T \in SUBSET (1..Len(QueryWords)) :
                           Cardinality(T) \in 1..MaxWords}}

NenndruckQuery == <<"Welcher", " ", "Nenndruck", " ", "für", " ", "CDH2", "?">>

FehlercodeQuery == <<"Fehlercode", " ", "E-12">>

ExampleQueries ==
  {NenndruckQuery, FehlercodeQuery, <<"Hallo">>, <<>>,
   <<"Temperaturanzeige", ",", " ", "Sensor", "?">>,
   <<" ", "Druck", "\t", " ", "dichtung", "!">>,
   <<"E-", " ", "12">>, <<"Druck", "sensor">>,
   <<"Druck", "sensor", " ", "type", " ", "code">>}

Queries == GeneratedQueries \cup ExampleQueries

\* the queries of the repeated-call scenario
DetQueries ==
  {FehlercodeQuery, <<"Hallo">>, <<"Druck", " ", "Sensor">>, <<"Sensor", " ", "Druck", "?">>,
   <<"temperaturanzeige", " ", "Sensor", " ", "dichtung">>, <<"E-", " ", "12">>}

NoMemo == [text |-> <<"-">>, expanded |-> <<>>, domain |-> UNKNOWN, confidence |-> -1]


\* --------------------------------------------------------- configuration
RETRIEVAL_TOP_K == 20

FUSION_NUM_QUERIES == 2

MAX_CONTEXT_TOKENS == 12000

\* similarity_top_k of index.as_retriever
VECTOR_TOP_K == 12

\* similarity_top_k of BM25Retriever.from_defaults
BM25_TOP_K == 12

\* similarity_top_k of the QueryFusionRetriever
FusionTopKDoubled == RETRIEVAL_TOP_K * FUSION_NUM_QUERIES

FusionTopK == RETRIEVAL_TOP_K

\* ---------------------------------------------------------------- passages
\* number of nodes in the index
CorpusSize == 24

\* a metadata key that the node does not have
NoMeta == "<missing>"

\* str(page_number) of the pages the nodes come from
PageNames == <<"1", "2", "3", "4">>

\* len(node.get_content()) of the nodes
ContentLens == <<4000, 16384, 900, 0>>

\* node i of the index: metadata and the length of get_content()
Passage(i) ==
  [id |-> i,
   source_file |-> IF i % 7 = 5 THEN NoMeta
                   ELSE IF i % 3 = 0 THEN "ofen.pdf" ELSE "cdh2.pdf",
   page_number |-> IF i % 7 = 5 \/ i % 11 = 6 THEN NoMeta
                   ELSE PageNames[((i \div 3) % Len(PageNames)) + 1],
   content_len |-> ContentLens[(i % 4) + 1]]

\* node.metadata.get('source_file', 'Unbekannt')
SourceFile(node) == IF node.source_file = NoMeta THEN "Unbekannt" ELSE node.source_file

\* node.metadata.get('page_number', '?')
PageNumber(node) == IF node.page_number = NoMeta THEN "?" ELSE node.page_number

AllNodes == [k \in 1..CorpusSize |-> Passage(k)]

\* the vector retriever returns at most similarity_top_k nodes, best first
VectorChoices ==
  {[k \in 1..n |-> Passage(k)] : n \in 0..Min(VECTOR_TOP_K, CorpusSize)}

\* the BM25 retriever ranks the stored nodes its own way, at most similarity_top_k
BM25Choices(nodes) ==
  IF nodes = <<>> THEN {<<>>}
  ELSE {[k \in 1..m |-> Passage(((k + 7) % CorpusSize) + 1)] :
          m \in 0..Min(BM25_TOP_K, CorpusSize)}

\* what the retrievers return for the num_queries - 1 generated query variants
VariantChoices ==
  IF FUSION_NUM_QUERIES > 1
  THEN {<<>>, [k \in 1..3 |-> Passage(CorpusSize + 1 - k)]}
  ELSE {<<>>}

RECURSIVE DedupNodes(_, _)
DedupNodes(l, ids) ==
  IF l = <<>> THEN <<>>
  ELSE IF Head(l).id \in ids THEN DedupNodes(Tail(l), ids)
  ELSE <<Head(l)>> \o DedupNodes(Tail(l), ids \cup {Head(l).id})

Truncate(l, k) == SubSeq(l, 1, Min(k, Len(l)))

\* QueryFusionRetriever.retrieve: the nodes of all result lists, each once, in
\* an order the library decides, cut to similarity_top_k
FusedChoices(sem, lex, variant, k) ==
  {Truncate(DedupNodes(l, {}), k) :
     l \in {sem \o lex \o variant, lex \o sem \o variant, variant \o lex \o sem}}

\* ------------------------------------------------------ retriever selection
\* slip: the test of the stored nodes is left out
SelectRetrieverInstalledOnly(available, nodes, constructionFails) ==
  IF available /\ ~constructionFails THEN "fusion" ELSE "vector"

\* retriever = vector_retriever, replaced by the fusion retriever when BM25 is
\* installed, nodes are stored and both constructors succeed
SelectRetriever(available, nodes, constructionFails) ==
  IF available /\ nodes # <<>> /\ ~constructionFails THEN "fusion" ELSE "vector"

Entry(level, message) == [level |-> level, message |-> message]

\* what loading the module logs: the core and the optional BM25 imports
ImportLog(available) ==
  <<Entry("INFO", "Core dependencies loaded successfully"),
    IF available THEN Entry("INFO", "BM25 Hybrid Retrieval available")
    ELSE Entry("WARNING", "BM25 not available - using vector-only retrieval")>>

\* what the retriever selection logs
SelectionLog(available, nodes, constructionFails) ==
  IF available /\ nodes # <<>>
  THEN IF constructionFails
       THEN <<Entry("WARNING", "BM25 fusion failed, using vector-only")>>
       ELSE <<Entry("INFO", "Using hybrid BM25 + Vector retrieval")>>
  ELSE <<Entry("INFO", "Using vector-only retrieval")>>

\* -------------------------------------------------------- context assembly
\* f"[Quelle: {source_file} S. {page_number}]\n"
Label(node) == "[Quelle: " \o SourceFile(node) \o " S. " \o PageNumber(node) \o "]\n"

\* a string as segments: the label and the content of a node, or a separator
Block(node) ==
  <<[node |-> node.id, part |-> "label", label |-> Label(node), chars |-> Len(Label(node))],
    [node |-> node.id, part |-> "content", label |-> "", chars |-> node.content_len]>>

Separator == [node |-> 0, part |-> "separator", label |-> "\n\n", chars |-> 2]

\* "\n\n".join([block for node in retrieved_nodes])
RECURSIVE JoinBlocks(_)
JoinBlocks(nodes) ==
  IF nodes = <<>> THEN <<>>
  ELSE IF Len(nodes) = 1 THEN Block(nodes[1])
  ELSE Block(Head(nodes)) \o <<Separator>> \o JoinBlocks(Tail(nodes))

\* len(str)
RECURSIVE StrLen(_)
StrLen(s) == IF s = <<>> THEN 0 ELSE Head(s).chars + StrLen(Tail(s))

\* str[:n]
RECURSIVE Slice(_, _)
Slice(s, n) ==
  IF s = <<>> \/ n <= 0 THEN <<>>
  ELSE IF Head(s).chars <= n THEN <<Head(s)>> \o Slice(Tail(s), n - Head(s).chars)
  ELSE <<[Head(s) EXCEPT !.chars = n]>>

max_context_chars == MAX_CONTEXT_TOKENS * 4

\* slip: the budget test is left out
KeepContext(s) == s

\* if len(context_str) > max_context_chars: context_str = context_str[:max_context_chars]
TruncateContext(s) == IF StrLen(s) > max_context_chars THEN Slice(s, max_context_chars) ELSE s

\* -------------------------------------------------------- source extraction
\* f"{filename} (S. {page_num})"
SourceStr(node) == SourceFile(node) \o " (S. " \o PageNumber(node) \o ")"

\* slip: only the nodes that left characters in the context give a source
SourceNodesInContext(nodes, context) ==
  SelectSeq(nodes, LAMBDA n : \E i \in 1..Len(context) : context[i].node = n.id)

\* for node in retrieved_nodes: the loop walks the retrieved list itself
SourceNodes(nodes, context) == nodes

\* slip: every node appends its source string
RECURSIVE AppendAllSources(_, _, _)
AppendAllSources(nodes, srcs, seen) ==
  IF nodes = <<>> THEN srcs
  ELSE AppendAllSources(Tail(nodes), Append(srcs, SourceStr(Head(nodes))), seen)

\* for node in retrieved_nodes: if source_str not in seen: append, add
RECURSIVE ExtractSources(_, _, _)
ExtractSources(nodes, srcs, seen) ==
  IF nodes = <<>> THEN srcs
  ELSE LET source_str == SourceStr(Head(nodes))
       IN  IF source_str \notin seen
           THEN ExtractSources(Tail(nodes), Append(srcs, source_str), seen \cup {source_str})
           ELSE ExtractSources(Tail(nodes), srcs, seen)

\* ------------------------------------------------------------------ failures
\* the calls of a query that can raise
Faults == {"index", "bm25", "retrieve", "generate"}

\* str(e) of the exception each call raises
ExceptionText ==
  ("index" :> "'NoneType' object has no attribute 'as_retriever'") @@
  ("bm25" :> "No nodes or index provided") @@
  ("retrieve" :> "Connection error.") @@
  ("generate" :> "Rate limit reached for gpt-4o")

\* slip: the try block ends after the retrieval
HandlerCoversRetrieval(f) == f \in {"index", "retrieve"}

\* the calls inside the try block of query_knowledge_base
HandlerCovers(f) == f \in {"index", "retrieve", "generate"}

\* the fixed part of the error string (its leading warning sign left out)
ErrorPrefix == "Fehler bei der Verarbeitung: "

\* the text of llm.complete(full_query)
GeneratedText == <<"Laut Handbuch ...">>

\* slip: the retriever gets the question as typed
RetrieveArgRaw(question, e) == question

\* retriever.retrieve(expanded)
RetrieveArg(question, e) == e.expanded

\* slip: a failed generator call is tried once more
GenerateCallsRetry(retrievedOk, f, prompt) ==
  IF ~retrievedOk THEN <<>>
  ELSE IF f = "generate"
       THEN <<[op |-> "generate", arg |-> prompt], [op |-> "generate", arg |-> prompt]>>
       ELSE <<[op |-> "generate", arg |-> prompt]>>

\* the calls of llm.complete(full_query) in a query: one, made when the
\* retrieval returned; its exception leaves the try block
GenerateCalls(retrievedOk, f, prompt) ==
  IF retrievedOk THEN <<[op |-> "generate", arg |-> prompt]>> ELSE <<>>

NoPrompt == [system |-> "", context |-> <<>>, question |-> <<>>]

NoResult == [answer |-> <<>>, sources |-> <<>>]

\* --------------------------------------------------------- query_knowledge_base
\* e: the triple returned by expand_query(question) at line 963;
\* env: the fault injected and what the external services return
query_knowledge_base(question, e, env) ==
  LET use == SelectRetriever(BM25_AVAILABLE, nodes_for_bm25, env.fault = "bm25")
      retrievedOk == env.fault \notin {"index", "retrieve"}
      nodes == IF ~retrievedOk THEN <<>>
               ELSE IF use = "fusion" THEN env.fused ELSE env.sem
      context == IF retrievedOk THEN TruncateContext(JoinBlocks(nodes)) ELSE <<>>
      prompt == IF retrievedOk
                THEN [system |-> "ENTERPRISE_SYSTEM_PROMPT", context |-> context,
                      question |-> question]
                ELSE NoPrompt
      failed == env.fault \in {"index", "retrieve", "generate"}
      srcs == IF failed THEN <<>>
              ELSE ExtractSources(SourceNodes(nodes, context), <<>>, {})
      logged ==
        <<Entry("INFO", "Query received"), Entry("INFO", "Query expanded")>>
        \o (IF env.fault = "index" THEN <<>>
            ELSE SelectionLog(BM25_AVAILABLE, nodes_for_bm25, env.fault = "bm25"))
        \o (IF retrievedOk /\ StrLen(JoinBlocks(nodes)) > max_context_chars
            THEN <<Entry("WARNING", "Context truncated due to token budget")>> ELSE <<>>)
        \o (IF ~failed THEN <<Entry("INFO", "Query completed")>>
            ELSE IF HandlerCovers(env.fault) THEN <<Entry("ERROR", "Query failed")>>
            ELSE <<>>)
      calls ==
        <<[op |-> "expand", arg |-> question]>>
        \o (IF env.fault = "index" THEN <<>>
            ELSE <<[op |-> "retrieve", arg |-> RetrieveArg(question, e)]>>)
        \o GenerateCalls(retrievedOk, env.fault, prompt)
  IN  [expand |-> e,
       retriever |-> IF env.fault = "index" THEN "none" ELSE use,
       vector_results |-> IF env.fault \in {"index", "retrieve"} THEN <<>> ELSE env.sem,
       bm25_results |-> IF retrievedOk /\ use = "fusion" THEN env.lex ELSE <<>>,
       retrieved_nodes |-> nodes,
       context_str |-> context,
       full_query |-> prompt,
       sources |-> srcs,
       result |-> IF ~failed THEN [answer |-> GeneratedText, sources |-> srcs]
                  ELSE IF HandlerCovers(env.fault)
                       THEN [answer |-> <<ErrorPrefix, ExceptionText[env.fault]>>,
                             sources |-> <<>>]
                       ELSE NoResult,
       outcome |-> IF failed /\ ~HandlerCovers(env.fault) THEN "raised" ELSE "returned",
       log |-> log \o logged,
       trace |-> calls]
\* ---------------------------------------------------------------- session
\* most pages (documents) that parsing one PDF yields
MaxPages == 1

\* most questions in the chat history
MaxQuestions == 1

\* st.session_state.user is None / st.session_state.index is None
NoUser == "None"

NoIndex == "None"

\* the VectorStoreIndex over collection "hydraulik_enterprise_v4"
TheIndex == "VectorStoreIndex"

\* AuthManager.get_users(): username -> role
Users == ("admin" :> "admin") @@ ("demo" :> "demo")

\* the PDFs the user has
Files == {"ofen.pdf", "cdh2.pdf"}

\* page p of file f as parsed: metadata page_number, source_file; one node per document
Document(f, p) ==
  [id |-> (IF f = "ofen.pdf" THEN 100 ELSE 200) + p, source_file |-> f,
   page_number |-> PageNames[p], content_len |-> 900]

\* parser.load_data(pdf_path) with n pages, after the metadata enrichment
ParsedDocuments(f, n) == [p \in 1..n |-> Document(f, p)]

\* the defaults of init_session_state, before any index was built
SessionDefaults ==
  /\ authenticated = FALSE
  /\ user = NoUser
  /\ messages = <<>>
  /\ index = NoIndex
  /\ all_documents = <<>>
  /\ uploaded_files = <<>>
  /\ is_ready = FALSE
  /\ collection = <<>>
  /\ handler = "init"

\* a session in which the demo user has ingested and indexed both manuals
SessionWithIndex ==
  /\ authenticated = TRUE
  /\ user = "demo"
  /\ messages = <<>>
  /\ index = TheIndex
  /\ all_documents = ParsedDocuments("ofen.pdf", Len(PageNames))
                       \o ParsedDocuments("cdh2.pdf", Len(PageNames))
  /\ uploaded_files = ("ofen.pdf" :> Len(PageNames)) @@ ("cdh2.pdf" :> Len(PageNames))
  /\ is_ready = TRUE
  /\ collection = AllNodes
  /\ handler = "ingest"

\* the part of the session that ingest, rebuild, remove and reset work on
SessionStore ==
  [all_documents |-> all_documents, uploaded_files |-> uploaded_files, index |-> index,
   is_ready |-> is_ready, collection |-> collection, nodes_for_bm25 |-> nodes_for_bm25]

\* how create_or_update_index ends: built with nodes stored, built with the
\* node storage failing, failing before the collection is deleted, failing
\* while the new collection is filled
RebuildOutcomes == {"ok", "nodes_fail", "config_fail", "embed_fail"}

\* create_or_update_index(documents, key): the index or None, the collection
\* and the stored nodes it leaves
create_or_update_index(documents, coll, nodes, r) ==
  IF r = "config_fail" THEN [index |-> NoIndex, collection |-> coll, nodes |-> nodes]
  ELSE IF r = "embed_fail" THEN [index |-> NoIndex, collection |-> <<>>, nodes |-> nodes]
  ELSE [index |-> TheIndex, collection |-> documents,
        nodes |-> IF r = "ok" THEN documents ELSE <<>>]

\* rebuild_index(openai_key)
rebuild_index(s, r) ==
  IF s.all_documents = <<>> THEN s
  ELSE LET c == create_or_update_index(s.all_documents, s.collection, s.nodes_for_bm25, r)
       IN  IF c.index # NoIndex
           THEN [s EXCEPT !.index = c.index, !.is_ready = TRUE,
                          !.collection = c.collection, !.nodes_for_bm25 = c.nodes]
           ELSE [s EXCEPT !.collection = c.collection, !.nodes_for_bm25 = c.nodes]

\* process_single_pdf(uploaded_file, ...): the store and the returned flag;
\* parsed is FALSE when parse_pdf_with_llamaparse returns None
process_single_pdf(s, f, parsed, n) ==
  IF ~parsed THEN [ok |-> FALSE, store |-> s]
  ELSE [ok |-> TRUE,
        store |-> [s EXCEPT !.all_documents = @ \o ParsedDocuments(f, n),
                            !.uploaded_files = (f :> n) @@ @]]

\* the documents and the file table without file filename
WithoutFile(s, filename) ==
  [s EXCEPT !.all_documents = SelectSeq(@, LAMBDA doc : doc.source_file # filename),
            !.uploaded_files = [g \in DOMAIN @ \ {filename} |-> @[g]]]

\* slip: the rebuild is called also when no document is left
remove_documentAlwaysRebuild(s, filename, r) ==
  rebuild_index(WithoutFile(s, filename), r)

\* remove_document(filename, openai_key)
remove_document(s, filename, r) ==
  LET t == WithoutFile(s, filename)
  IN  IF t.all_documents # <<>> THEN rebuild_index(t, r)
      ELSE [t EXCEPT !.index = NoIndex, !.is_ready = FALSE, !.nodes_for_bm25 = <<>>]

\* the System Reset button
system_reset(s) ==
  [s EXCEPT !.all_documents = <<>>, !.uploaded_files = <<>>, !.index = NoIndex,
            !.is_ready = FALSE, !.nodes_for_bm25 = <<>>]
\* ------------------------------------------------------------ fluid advisor
\* how far the generated measurements lie around each threshold
FluidSpread == 3

\* a measurement that is None (the measurements tried are not negative)
NoValue == -1

\* sample.particle_count > 1000
PARTICLE_LIMIT == 1000

\* sample.water_content > 0.1, in thousandths
WATER_LIMIT == 100

\* the measurements tried: none, zero, and the values around the limit
Measurements(limit) ==
  {NoValue, 0} \cup {limit + d : d \in (0 - FluidSpread)..FluidSpread}

\* FluidSample(asset_id, taken_at, particle_count, water_content)
FluidSamples ==
  {[asset_id |-> "CDH2-01", particle_count |-> p, water_content |-> w] :
     p \in Measurements(PARTICLE_LIMIT), w \in Measurements(WATER_LIMIT)}

NoAssessment ==
  [asset_id |-> "", score |-> -1, status |-> "", summary |-> <<>>, recommendations |-> <<>>]

\* no fluid sample is being assessed
FluidIdle ==
  /\ sample = [asset_id |-> "CDH2-01", particle_count |-> NoValue, water_content |-> NoValue]
  /\ assessment = NoAssessment

\* value is not None and value > limit
Exceeds(value, limit) == value # NoValue /\ value > limit

\* slip: a score of 50 counts as critical
ScoreCriticalInclusive(score) == score <= 50

\* if score < 50: status = "KRITISCH"
ScoreCritical(score) == score < 50

\* max(0, min(100, score))
Clamp(score) == IF score < 0 THEN 0 ELSE IF score > 100 THEN 100 ELSE score

\* assess_fluid(sample); the dashes of its texts are written as hyphens
assess_fluid(s) ==
  LET particles == Exceeds(s.particle_count, PARTICLE_LIMIT)
      water == Exceeds(s.water_content, WATER_LIMIT)
      score == 80 - (IF particles THEN 30 ELSE 0) - (IF water THEN 30 ELSE 0)
      status1 == IF water THEN "KRITISCH" ELSE IF particles THEN "BEOBACHTEN" ELSE "OK"
      status == IF ScoreCritical(score) THEN "KRITISCH" ELSE status1
      found == (IF particles THEN <<"Erhöhte Partikelzahl - Filtration prüfen.">> ELSE <<>>)
               \o (IF water
                   THEN <<"Erhöhter Wassergehalt - Gefahr von Korrosion und Kavitation.">>
                   ELSE <<>>)
      reasons == IF found = <<>>
                 THEN <<"Fluidzustand unauffällig im Rahmen der verfügbaren Daten.">>
                 ELSE found
      recommendations ==
        <<"Regelmäßige Kontrollmessung beibehalten.">>
        \o (IF status # "OK" THEN <<"Zeitnahe Analyse durch Fluidservice einplanen.">>
            ELSE <<>>)
  IN  [asset_id |-> s.asset_id,
       score |-> Clamp(score),
       status |-> status,
       summary |-> [score |-> score, status |-> status],
       recommendations |-> reasons \o recommendations]
\* ------------------------------------------------------------------ actions
InitRouter ==
  /\ call = "init"
  /\ fedBack = FALSE
  /\ normalized = <<>>
  /\ hydraulic_score = 0
  /\ appliance_score = 0
  /\ domain = UNKNOWN
  /\ expansion_terms = {}
  /\ expanded = <<>>
  /\ confidence = 0
  /\ memo = NoMemo
  /\ ontology_store = OntologyStore

\* no query has run: the session starts with no stored nodes
QueryIdle ==
  /\ fault = "none"
  /\ vector_results = <<>>
  /\ bm25_results = <<>>
  /\ retriever = "none"
  /\ retrieved_nodes = <<>>
  /\ context_str = <<>>
  /\ full_query = NoPrompt
  /\ sources = <<>>
  /\ result = NoResult
  /\ outcome = "idle"
  /\ log = ImportLog(BM25_AVAILABLE)
  /\ trace = <<>>

\* a session that only uses the router
RouterOnly == BM25_AVAILABLE = FALSE /\ nodes_for_bm25 = <<>> /\ QueryIdle /\ SessionDefaults
              /\ FluidIdle

\* NeuralSemanticRouter.normalize_query(text)
NormalizeQuery ==
  /\ call = "init"
  /\ call' = "normalize"
  /\ normalized' = normalize_query(text)
  /\ UNCHANGED <<text, fedBack, hydraulic_score, appliance_score, domain,
                 expansion_terms, expanded, confidence, memo, queryVars,
                 ontology_store, sessionVars, fluidVars>>

\* NeuralSemanticRouter.normalize_query(result of the previous normalize_query)
NormalizeAgain ==
  /\ call = "normalize"
  /\ text' = normalized
  /\ fedBack' = TRUE
  /\ normalized' = normalize_query(normalized)
  /\ UNCHANGED <<call, hydraulic_score, appliance_score, domain,
                 expansion_terms, expanded, confidence, memo, queryVars,
                 ontology_store, sessionVars, fluidVars>>

\* NeuralSemanticRouter.classify_domain(text)
ClassifyDomain ==
  /\ call # "classify"
  /\ \E c \in {classify_domain(text)} :
         /\ hydraulic_score' = c.hydraulic_score
         /\ appliance_score' = c.appliance_score
         /\ domain' = c.domain
  /\ call' = "classify"
  /\ normalized' = normalize_query(text)
  /\ ontology_store' = StoreAfterClassify(ontology_store, Tokens(normalize_query(text)))
  /\ UNCHANGED <<text, fedBack, expansion_terms, expanded, confidence, memo, queryVars,
                 sessionVars, fluidVars>>

\* NeuralSemanticRouter.expand_query(text), under any hash seed
ExpandQuery ==
  /\ call # "expand"
  /\ \E seed \in 1..HashSeeds :
       \E e \in {expand_query(text, seed)} :
           /\ expanded' = e.expanded
           /\ domain' = e.domain
           /\ confidence' = e.confidence
           /\ expansion_terms' = e.expansion_terms
           /\ hydraulic_score' = e.hydraulic_score
           /\ appliance_score' = e.appliance_score
           /\ ontology_store' =
                StoreAfterExpand(ontology_store, Tokens(normalize_query(text)), e.domain)
  /\ call' = "expand"
  /\ normalized' = normalize_query(text)
  /\ UNCHANGED <<text, fedBack, memo, queryVars, sessionVars, fluidVars>>

\* the caller keeps the triple returned by the last expand_query
Remember ==
  /\ call = "expand"
  /\ memo' = [text |-> text, expanded |-> expanded, domain |-> domain,
              confidence |-> confidence]
  /\ UNCHANGED <<routerVars, queryVars, ontology_store, sessionVars, fluidVars>>

\* the next request arrives with another question
NewQuery ==
  /\ \E q \in DetQueries : text' = q
  /\ call' = "init"
  /\ UNCHANGED <<fedBack, normalized, hydraulic_score, appliance_score, domain,
                 expansion_terms, expanded, confidence, memo, queryVars,
                 ontology_store, sessionVars, fluidVars>>

\* --------------------------------------------------------- specifications
\* normalisation of arbitrary short texts
InitNorm == InitRouter /\ RouterOnly /\ text \in NormTexts

NextNorm == NormalizeQuery \/ NormalizeAgain

SpecNorm == InitNorm /\ [][NextNorm]_vars

\* classification and expansion of one query
Init == InitRouter /\ RouterOnly /\ text \in Queries

Next == ClassifyDomain \/ ExpandQuery

Spec == Init /\ [][Next]_vars

\* repeated expansion of a few queries, in any order
InitDet == InitRouter /\ RouterOnly /\ text \in DetQueries

NextDet == NewQuery \/ ExpandQuery \/ Remember

SpecDet == InitDet /\ [][NextDet]_vars

\* requests of several users in any order, each calling any router method
NextStore == NewQuery \/ NormalizeQuery \/ ClassifyDomain \/ ExpandQuery \/ Remember

SpecStore == InitDet /\ [][NextStore]_vars

\* the questions asked of the knowledge base
Questions == {FehlercodeQuery, <<"Druck", " ", "dichtung", "?">>}

\* the faults that can occur in a query that does or does not try the fusion
ApplicableFaults(tryFusion) ==
  {"none", "index", "retrieve", "generate"} \cup (IF tryFusion THEN {"bm25"} ELSE {})

\* what the external services return in a query with fault f: nothing when the
\* retrieval raises, else the results of the retrievers that the query uses
Environments(f) ==
  IF f \in {"index", "retrieve"}
  THEN {[fault |-> f, sem |-> <<>>, lex |-> <<>>, fused |-> <<>>]}
  ELSE IF SelectRetriever(BM25_AVAILABLE, nodes_for_bm25, f = "bm25") = "vector"
  THEN {[fault |-> f, sem |-> sem, lex |-> <<>>, fused |-> <<>>] : sem \in VectorChoices}
  ELSE UNION {{[fault |-> f, sem |-> c[1], lex |-> c[2], fused |-> fused] :
                 fused \in FusedChoices(c[1], c[2], c[3], FusionTopK)} :
              c \in VectorChoices \X BM25Choices(nodes_for_bm25) \X VariantChoices}

\* query_knowledge_base(index, text)
QueryKnowledgeBase ==
  /\ outcome = "idle"
  /\ \E seed \in 1..HashSeeds :
       \E e \in {expand_query(text, seed)},
          f \in ApplicableFaults(BM25_AVAILABLE /\ nodes_for_bm25 # <<>>) :
         \E env \in Environments(f) :
         \E q \in {query_knowledge_base(text, e, env)} :
             /\ expanded' = q.expand.expanded
             /\ domain' = q.expand.domain
             /\ confidence' = q.expand.confidence
             /\ expansion_terms' = q.expand.expansion_terms
             /\ hydraulic_score' = q.expand.hydraulic_score
             /\ appliance_score' = q.expand.appliance_score
             /\ fault' = env.fault
             /\ retriever' = q.retriever
             /\ vector_results' = q.vector_results
             /\ bm25_results' = q.bm25_results
             /\ retrieved_nodes' = q.retrieved_nodes
             /\ context_str' = q.context_str
             /\ full_query' = q.full_query
             /\ sources' = q.sources
             /\ result' = q.result
             /\ outcome' = q.outcome
             /\ log' = q.log
             /\ trace' = q.trace
             /\ ontology_store' =
                  StoreAfterExpand(ontology_store, Tokens(normalize_query(text)), e.domain)
  /\ call' = "expand"
  /\ normalized' = normalize_query(text)
  /\ UNCHANGED <<text, fedBack, memo, BM25_AVAILABLE, nodes_for_bm25, sessionVars,
                 fluidVars>>

\* one query against a built index, with BM25 installed or not, nodes stored or not
InitQuery ==
  /\ InitRouter
  /\ text \in Questions
  /\ BM25_AVAILABLE \in BOOLEAN
  /\ nodes_for_bm25 \in {<<>>, AllNodes}
  /\ QueryIdle
  /\ SessionWithIndex
  /\ FluidIdle

NextQuery == QueryKnowledgeBase

SpecQuery == InitQuery /\ [][NextQuery]_vars

\* ------------------------------------------------------- session handlers
\* a script run without a chat input: the locals of the last query are gone
ForgetQuery ==
  /\ fault' = "none"
  /\ vector_results' = <<>>
  /\ bm25_results' = <<>>
  /\ retriever' = "none"
  /\ retrieved_nodes' = <<>>
  /\ context_str' = <<>>
  /\ full_query' = NoPrompt
  /\ sources' = <<>>
  /\ result' = NoResult
  /\ outcome' = "idle"
  /\ log' = ImportLog(BM25_AVAILABLE)
  /\ trace' = <<>>

\* the store written back to st.session_state
StoreBecomes(s) ==
  /\ all_documents' = s.all_documents
  /\ uploaded_files' = s.uploaded_files
  /\ index' = s.index
  /\ is_ready' = s.is_ready
  /\ collection' = s.collection
  /\ nodes_for_bm25' = s.nodes_for_bm25

\* render_login_page: a successful login
Login ==
  /\ ~authenticated
  /\ \E u \in DOMAIN Users : user' = u
  /\ authenticated' = TRUE
  /\ handler' = "login"
  /\ ForgetQuery
  /\ UNCHANGED <<messages, index, all_documents, uploaded_files, is_ready, collection,
                 nodes_for_bm25, BM25_AVAILABLE, routerVars, memo, ontology_store, fluidVars>>

\* slip: logging out clears the session of the user
LogoutClearsSession ==
  /\ authenticated
  /\ user # NoUser
  /\ authenticated' = FALSE
  /\ user' = NoUser
  /\ messages' = <<>>
  /\ handler' = "logout"
  /\ ForgetQuery
  /\ UNCHANGED <<index, all_documents, uploaded_files, is_ready, collection,
                 nodes_for_bm25, BM25_AVAILABLE, routerVars, memo, ontology_store, fluidVars>>

\* render_sidebar: the Logout button
Logout ==
  /\ authenticated
  /\ user # NoUser
  /\ authenticated' = FALSE
  /\ handler' = "logout"
  /\ ForgetQuery
  /\ UNCHANGED <<user, messages, index, all_documents, uploaded_files, is_ready, collection,
                 nodes_for_bm25, BM25_AVAILABLE, routerVars, memo, ontology_store, fluidVars>>

\* render_sidebar: Ingest & Index of a file that is not in uploaded_files
Ingest ==
  /\ authenticated
  /\ \E f \in Files \ DOMAIN uploaded_files, parsed \in BOOLEAN, n \in 0..MaxPages,
        r \in RebuildOutcomes :
       LET p == process_single_pdf(SessionStore, f, parsed, n)
       IN  StoreBecomes(IF p.ok THEN rebuild_index(p.store, r) ELSE p.store)
  /\ handler' = "ingest"
  /\ ForgetQuery
  /\ UNCHANGED <<authenticated, user, messages, BM25_AVAILABLE, routerVars, memo,
                 ontology_store, fluidVars>>

\* render_sidebar: the remove button of an uploaded file
Remove ==
  /\ authenticated
  /\ \E f \in DOMAIN uploaded_files, r \in RebuildOutcomes :
       StoreBecomes(remove_document(SessionStore, f, r))
  /\ handler' = "remove"
  /\ ForgetQuery
  /\ UNCHANGED <<authenticated, user, messages, BM25_AVAILABLE, routerVars, memo,
                 ontology_store, fluidVars>>

\* render_sidebar: the System Reset button of an admin
Reset ==
  /\ authenticated
  /\ user # NoUser /\ Users[user] = "admin"
  /\ StoreBecomes(system_reset(SessionStore))
  /\ messages' = <<>>
  /\ handler' = "reset"
  /\ ForgetQuery
  /\ UNCHANGED <<authenticated, user, BM25_AVAILABLE, routerVars, memo, ontology_store, fluidVars>>

\* what the services return for a question asked in this session: the
\* vector retriever reads the collection, the BM25 retriever the stored nodes
SessionEnvironments ==
  IF index = NoIndex
  THEN {[fault |-> "index", sem |-> <<>>, lex |-> <<>>, fused |-> <<>>]}
  ELSE LET lex == IF SelectRetriever(BM25_AVAILABLE, nodes_for_bm25, FALSE) = "fusion"
                  THEN Truncate(nodes_for_bm25, BM25_TOP_K) ELSE <<>>
       IN  UNION {{[fault |-> f, sem |-> sem, lex |-> lex, fused |-> fused] :
                     fused \in FusedChoices(sem, lex, <<>>, FusionTopK)} :
                  f \in {"none", "generate"},
                  sem \in {<<>>, Truncate(collection, VECTOR_TOP_K)}}

\* render_chat_interface returns before the chat input unless is_ready
ChatShown == authenticated /\ is_ready

\* render_chat_interface: a question typed into the chat input
Ask ==
  /\ ChatShown
  /\ Len(messages) < 2 * MaxQuestions
  /\ \E seed \in 1..HashSeeds :
       \E e \in {expand_query(text, seed)}, env \in SessionEnvironments :
         \E q \in {query_knowledge_base(text, e, env)} :
             /\ expanded' = q.expand.expanded
             /\ domain' = q.expand.domain
             /\ confidence' = q.expand.confidence
             /\ expansion_terms' = q.expand.expansion_terms
             /\ hydraulic_score' = q.expand.hydraulic_score
             /\ appliance_score' = q.expand.appliance_score
             /\ fault' = env.fault
             /\ retriever' = q.retriever
             /\ vector_results' = q.vector_results
             /\ bm25_results' = q.bm25_results
             /\ retrieved_nodes' = q.retrieved_nodes
             /\ context_str' = q.context_str
             /\ full_query' = q.full_query
             /\ sources' = q.sources
             /\ result' = q.result
             /\ outcome' = q.outcome
             /\ log' = ImportLog(BM25_AVAILABLE) \o SubSeq(q.log, Len(log) + 1, Len(q.log))
             /\ trace' = q.trace
             /\ ontology_store' =
                  StoreAfterExpand(ontology_store, Tokens(normalize_query(text)), e.domain)
             /\ messages' = messages \o
                  <<[role |-> "user", content |-> text, sources |-> <<>>],
                    [role |-> "assistant", content |-> q.result.answer,
                     sources |-> q.result.sources]>>
  /\ call' = "expand"
  /\ normalized' = normalize_query(text)
  /\ handler' = "ask"
  /\ UNCHANGED <<text, fedBack, memo, BM25_AVAILABLE, nodes_for_bm25, authenticated, user,
                 index, all_documents, uploaded_files, is_ready, collection, fluidVars>>

\* a fresh session of a user who will ask about an error code
InitSession ==
  /\ InitRouter
  /\ text = FehlercodeQuery
  /\ BM25_AVAILABLE \in BOOLEAN
  /\ nodes_for_bm25 = <<>>
  /\ QueryIdle
  /\ SessionDefaults
  /\ FluidIdle

NextSession == Login \/ Logout \/ Ingest \/ Remove \/ Reset \/ Ask

SpecSession == InitSession /\ [][NextSession]_vars

\* ------------------------------------------------------ fluid assessment
\* assess_fluid(sample)
AssessFluid ==
  /\ assessment = NoAssessment
  /\ assessment' = assess_fluid(sample)
  /\ UNCHANGED <<sample, routerVars, memo, queryVars, ontology_store, sessionVars>>

\* the next sample arrives
NewSample ==
  /\ assessment # NoAssessment
  /\ \E s \in FluidSamples : sample' = s
  /\ assessment' = NoAssessment
  /\ UNCHANGED <<routerVars, memo, queryVars, ontology_store, sessionVars>>

\* the assessment of any sample
InitFluid ==
  /\ InitRouter
  /\ text = <<>>
  /\ BM25_AVAILABLE = FALSE
  /\ nodes_for_bm25 = <<>>
  /\ QueryIdle
  /\ SessionDefaults
  /\ sample \in FluidSamples
  /\ assessment = NoAssessment

NextFluid == AssessFluid \/ NewSample

SpecFluid == InitFluid /\ [][NextFluid]_vars

\* ------------------------------------------------------------ normalisation
HasEdgeOrDoubleWhitespace(t) ==
  \/ t # <<>> /\ (t[1] \in Whitespace \/ t[Len(t)] \in Whitespace)
  \/ \E i \in 1..(Len(t) - 1) : t[i] \in Whitespace /\ t[i + 1] \in Whitespace

\* C1: normalising the result of normalize_query returns that result unchanged,
\* for every text, also one that begins or ends with a replaced character.
NormalizeIdempotent == fedBack => normalized = text

\* C2: the result of normalize_query has no leading or trailing whitespace and
\* no run of two or more whitespace characters.
NormalizeTrimmed == call = "normalize" => ~HasEdgeOrDoubleWhitespace(normalized)

\* ----------------------------------------------------------- classification
\* the patterns of an ontology that share a keyword with the tokens
MatchedPatterns(ontology, tokens) ==
  {i \in 1..Len(ontology) : Range(ontology[i].keywords) \cap tokens # {}}

RECURSIVE WeightSum(_, _)
WeightSum(ontology, I) ==
  IF I = {} THEN 0
  ELSE LET i == CHOOSE i \in I : TRUE
       IN  ontology[i].weight + WeightSum(ontology, I \ {i})

Classified == call \in {"classify", "expand"}

QueryTokens == Tokens(normalized)

\* C3: the scores are the weight sums of the patterns with a keyword among the
\* tokens; both positive gives HYBRID, only hydraulic positive HYDRAULIC, only
\* appliance positive APPLIANCE, both zero UNKNOWN; 'Fehlercode E-12' is APPLIANCE.
ClassifyDecisionRule ==
  Classified =>
    /\ hydraulic_score =
         WeightSum(HYDRAULIC_ONTOLOGY, MatchedPatterns(HYDRAULIC_ONTOLOGY, QueryTokens))
    /\ appliance_score =
         WeightSum(APPLIANCE_ONTOLOGY, MatchedPatterns(APPLIANCE_ONTOLOGY, QueryTokens))
    /\ (hydraulic_score > 0 /\ appliance_score > 0) => domain = HYBRID
    /\ (hydraulic_score > 0 /\ appliance_score = 0) => domain = HYDRAULIC
    /\ (hydraulic_score = 0 /\ appliance_score > 0) => domain = APPLIANCE
    /\ (hydraulic_score = 0 /\ appliance_score = 0) => domain = UNKNOWN
    /\ text = FehlercodeQuery => domain = APPLIANCE

ClassifyDecisionRuleWitness ==
  /\ call = "classify"
  /\ text = FehlercodeQuery
  /\ hydraulic_score = 0
  /\ appliance_score = 140
  /\ domain = APPLIANCE

PositiveTie == Classified /\ hydraulic_score = appliance_score /\ hydraulic_score > 0

\* C4 as stated: equal and positive scores fall through to UNKNOWN.
PositiveTieUnknown == PositiveTie => domain = UNKNOWN

\* C4 as amended: equal and positive scores are classified HYBRID.
PositiveTieHybrid == PositiveTie => domain = HYBRID

PositiveTieHybridWitness ==
  /\ call = "classify"
  /\ QueryTokens = {"druck", "sensor"}
  /\ hydraulic_score = 150
  /\ appliance_score = 150
  /\ domain = HYBRID

\* C5: 'Welcher Nenndruck für CDH2?' is HYDRAULIC and its expanded string
\* contains 'betriebsdruck', 'prüfdruck' and 'berstdruck'.
NenndruckHydraulic ==
  (call = "expand" /\ text = NenndruckQuery) =>
    /\ domain = HYDRAULIC
    /\ hydraulic_score = 150
    /\ {"betriebsdruck", "prüfdruck", "berstdruck"} \subseteq Tokens(expanded)

\* ---------------------------------------------------------------- expansion
Expanded == call = "expand"

NoKeywordMatch == Expanded /\ hydraulic_score = 0 /\ appliance_score = 0

\* the terms of S in ascending code-point order
SortedTermsOf(S) ==
  [i \in 1..Cardinality(S) |->
     CHOOSE x \in S : Cardinality({y \in S : TermRank[y] < TermRank[x]}) = i - 1]

\* the expanded string is the space-joined sorted terms of S
SortedStringOf(S) == expanded = Join(SortedTermsOf(S))

\* C6 as stated: with no keyword match the domain is UNKNOWN, the expansion is
\* the sorted normalized token set and the confidence is 0.
NoMatchUnchanged ==
  NoKeywordMatch =>
    /\ domain = UNKNOWN
    /\ expansion_terms = QueryTokens
    /\ SortedStringOf(QueryTokens)
    /\ confidence = 0

AnyRule == CROSS_DOMAIN_RULES[2]

\* C6 as amended: with no keyword match the domain is UNKNOWN; the expansion is
\* the sorted normalized token set with confidence 0 unless a token is 'e-' or
\* 'f-', and then the 'any' rule adds its add_terms and half its boost.
NoMatchUnchangedUnlessRule ==
  NoKeywordMatch =>
    /\ domain = UNKNOWN
    /\ (QueryTokens \cap {"e-", "f-"} = {}) =>
         /\ expansion_terms = QueryTokens
         /\ SortedStringOf(QueryTokens)
         /\ confidence = 0
    /\ (QueryTokens \cap {"e-", "f-"} # {}) =>
         /\ expansion_terms = QueryTokens \cup Range(AnyRule.add_terms)
         /\ SortedStringOf(expansion_terms)
         /\ confidence = 65

NoMatchWitness ==
  /\ NoKeywordMatch
  /\ QueryTokens = {"hallo", "sicherheit"}
  /\ expanded = <<"hallo", " ", "sicherheit">>
  /\ confidence = 0

\* C7: every token of the normalized query is a token of the expanded string.
ExpansionKeepsTokens == Expanded => QueryTokens \subseteq Tokens(expanded)

ExpansionKeepsTokensWitness ==
  /\ Expanded
  /\ Cardinality(QueryTokens) >= 2
  /\ QueryTokens \subseteq Tokens(expanded)
  /\ Tokens(expanded) # QueryTokens

\* C8: a call of expand_query returns the triple that an earlier call with the
\* same input returned, and the expanded string is the sorted, space-joined
\* term set.
ExpandDeterministic ==
  Expanded =>
    /\ SortedStringOf(expansion_terms)
    /\ memo.text = text =>
         /\ memo.expanded = expanded
         /\ memo.domain = domain
         /\ memo.confidence = confidence

ExpandDeterministicWitness ==
  /\ Expanded
  /\ memo.text = text
  /\ memo.expanded = expanded
  /\ Cardinality(expansion_terms) >= 3

AllRule == CROSS_DOMAIN_RULES[1]

TemperaturSensor == Expanded /\ {"temperaturanzeige", "sensor"} \subseteq QueryTokens

\* C9: with both 'temperaturanzeige' and 'sensor' among the tokens the 'all'
\* rule fires: its add_terms (among them 'bakesensor' and 'steckbuchse') are in
\* the expansion and its full boost 1.9 is part of the confidence, whatever
\* the other tokens are.
TemperaturSensorRule ==
  TemperaturSensor =>
    /\ Range(AllRule.add_terms) \subseteq expansion_terms
    /\ {"bakesensor", "steckbuchse"} \subseteq Tokens(expanded)
    /\ confidence - (hydraulic_score + appliance_score + 190) \in {0, 65, 140, 205}

TemperaturSensorRuleWitness ==
  /\ TemperaturSensor
  /\ Cardinality(QueryTokens) >= 3
  /\ {"bakesensor", "steckbuchse"} \cap QueryTokens = {}
  /\ "steckbuchse" \in expansion_terms
  /\ confidence >= 500

\* the ontologies expand_query walks for a domain
SelectedOntologies(d) ==
  (IF d \in {HYDRAULIC, HYBRID} THEN {HYDRAULIC_ONTOLOGY} ELSE {})
  \cup (IF d \in {APPLIANCE, HYBRID} THEN {APPLIANCE_ONTOLOGY} ELSE {})

\* the synonyms and the first three context terms of a pattern
PatternTerms(p) ==
  Range(p.synonyms) \cup {p.context_terms[k] : k \in DOMAIN p.context_terms \cap 1..3}

\* tokens, plus the terms of every triggered pattern of the selected ontologies
PatternExpansion(tokens, d) ==
  tokens \cup UNION {PatternTerms(o[i]) : <<o, i>> \in
                      {<<o, i>> \in SelectedOntologies(d) \X (1..5) :
                         i \in MatchedPatterns(o, tokens)}}

\* the rules among the first n that fire in the pass over CROSS_DOMAIN_RULES
RECURSIVE FiredRules(_, _)
FiredRules(n, base) ==
  IF n = 0 THEN {}
  ELSE LET prev == FiredRules(n - 1, base)
           cur == base \cup UNION {Range(CROSS_DOMAIN_RULES[j].add_terms) : j \in prev}
           r == CROSS_DOMAIN_RULES[n]
           holds == IF r.kind = "all" THEN Range(r.condition) \subseteq cur
                    ELSE Range(r.condition) \cap cur # {}
       IN  IF holds THEN prev \cup {n} ELSE prev

\* C10: the term set is exactly the tokens, the synonyms and first 3 context
\* terms of every triggered pattern of the selected ontologies, and the
\* add_terms of every fired rule; nothing else, so no 4th context term on
\* account of its pattern.
ExpansionTermsExact ==
  Expanded =>
    LET base == PatternExpansion(QueryTokens, domain)
        fired == FiredRules(Len(CROSS_DOMAIN_RULES), base)
    IN  expansion_terms =
          base \cup UNION {Range(CROSS_DOMAIN_RULES[j].add_terms) : j \in fired}

ExpansionTermsExactWitness ==
  /\ Expanded
  /\ domain = HYBRID
  /\ {"druck", "dichtung", "fehler"} \subseteq QueryTokens
  /\ {"prüfung", "druckfestigkeit", "codeanzeige"} \subseteq expansion_terms
  /\ "sicherheit" \notin expansion_terms
  /\ "warnung" \notin expansion_terms

\* the condition of a rule, read on a set of terms
ConditionHolds(r, S) ==
  IF r.kind = "all" THEN Range(r.condition) \subseteq S
  ELSE Range(r.condition) \cap S # {}

\* C11: a rule whose condition holds only through terms added by the synonym /
\* context step fires and adds its add_terms; query 'fehler' gains 'e-' and so
\* receives the add_terms of the 'any' rule.
RulesSeeAddedTerms ==
  Expanded =>
    /\ \A j \in DOMAIN CROSS_DOMAIN_RULES :
         LET r == CROSS_DOMAIN_RULES[j]
         IN  (/\ ~ConditionHolds(r, QueryTokens)
              /\ ConditionHolds(r, PatternExpansion(QueryTokens, domain)))
             => Range(r.add_terms) \subseteq expansion_terms
    /\ ("fehler" \in QueryTokens /\ ~ConditionHolds(AnyRule, QueryTokens)) =>
         /\ "e-" \in expansion_terms
         /\ Range(AnyRule.add_terms) \subseteq expansion_terms

RulesSeeAddedTermsWitness ==
  /\ Expanded
  /\ QueryTokens = {"fehler"}
  /\ ~ConditionHolds(AnyRule, QueryTokens)
  /\ "codeanzeige" \in expansion_terms
  /\ confidence = 205

RECURSIVE BoostSum(_)
BoostSum(J) ==
  IF J = {} THEN 0
  ELSE LET j == CHOOSE j \in J : TRUE
           r == CROSS_DOMAIN_RULES[j]
       IN  (IF r.kind = "all" THEN r.boost ELSE r.boost \div 2) + BoostSum(J \ {j})

\* the weights of the triggered patterns of the ontologies walked for domain d
SelectedWeight(tokens, d) ==
  (IF d \in {HYDRAULIC, HYBRID}
   THEN WeightSum(HYDRAULIC_ONTOLOGY, MatchedPatterns(HYDRAULIC_ONTOLOGY, tokens)) ELSE 0)
  + (IF d \in {APPLIANCE, HYBRID}
     THEN WeightSum(APPLIANCE_ONTOLOGY, MatchedPatterns(APPLIANCE_ONTOLOGY, tokens)) ELSE 0)

\* C12: the confidence is the weight sum of the triggered patterns of the
\* expanded ontologies plus the boost of every fired 'all' rule and half the
\* boost of every fired 'any' rule, which is hydraulic_score + appliance_score
\* plus the rule boosts.
ConfidenceIsWeightsPlusBoosts ==
  Expanded =>
    LET fired == FiredRules(Len(CROSS_DOMAIN_RULES), PatternExpansion(QueryTokens, domain))
    IN  /\ confidence = SelectedWeight(QueryTokens, domain) + BoostSum(fired)
        /\ confidence = hydraulic_score + appliance_score + BoostSum(fired)

ConfidenceIsWeightsPlusBoostsWitness ==
  /\ Expanded
  /\ QueryTokens = {"druck", "dichtung", "fehler"}
  /\ hydraulic_score = 270
  /\ appliance_score = 140
  /\ confidence = 615

\* a query that got its passages from the retrievers
Retrieved == outcome # "idle" /\ fault \notin {"index", "retrieve"}

\* C13: in hybrid and in vector-only mode, for every size of the semantic and
\* lexical result lists, a query retrieves at most RETRIEVAL_TOP_K passages
FusionBounded ==
  /\ Len(retrieved_nodes) <= RETRIEVAL_TOP_K
  /\ Retrieved /\ retriever = "vector" => Len(retrieved_nodes) = Len(vector_results)

\* a hybrid query whose result lists hold more than RETRIEVAL_TOP_K passages
FusionBoundedWitness ==
  /\ Retrieved
  /\ retriever = "fusion"
  /\ Len(vector_results) + Len(bm25_results) > RETRIEVAL_TOP_K
  /\ Len(retrieved_nodes) = RETRIEVAL_TOP_K

\* the lexical retriever has nothing to return
LexicalEmpty == ~BM25_AVAILABLE \/ nodes_for_bm25 = <<>>

\* C14: when the lexical retriever is not installed or has no nodes, the query
\* uses exactly the semantic results, in their order, at most RETRIEVAL_TOP_K
FusionFallback ==
  Retrieved /\ LexicalEmpty =>
    /\ retriever = "vector"
    /\ retrieved_nodes = vector_results
    /\ bm25_results = <<>>
    /\ Len(retrieved_nodes) <= RETRIEVAL_TOP_K

\* a query with BM25 installed and no stored nodes that used the semantic results
FusionFallbackWitness ==
  /\ Retrieved
  /\ BM25_AVAILABLE
  /\ nodes_for_bm25 = <<>>
  /\ retrieved_nodes = vector_results
  /\ Len(retrieved_nodes) = VECTOR_TOP_K

\* the lexical retriever is not installed, has no nodes, or fails to construct
LexicalUnavailable == LexicalEmpty \/ fault = "bm25"

\* C15: whenever the lexical retriever is unavailable the query does not fail,
\* proceeds with the semantic results only, and a warning is logged
LexicalFallbackWarns ==
  outcome # "idle" /\ fault \in {"none", "bm25"} /\ LexicalUnavailable =>
    /\ outcome = "returned"
    /\ result.answer = GeneratedText
    /\ retrieved_nodes = vector_results
    /\ \E i \in 1..Len(log) : log[i].level = "WARNING"

\* string c is the first StrLen(c) characters of string s
IsPrefixOf(c, s) ==
  /\ Len(c) <= Len(s)
  /\ \A i \in 1..Len(c) :
       IF i < Len(c) THEN c[i] = s[i]
       ELSE /\ c[i].chars <= s[i].chars
            /\ c[i] = [s[i] EXCEPT !.chars = c[i].chars]

\* C17: the context placed in the prompt is never longer than
\* max_context_chars; it is the first max_context_chars characters of the
\* joined passage blocks when they are longer, else all of them, and the
\* assembly raises nothing: the query goes on to the generation
ContextWithinBudget ==
  Retrieved =>
    LET whole == JoinBlocks(retrieved_nodes)
    IN  /\ full_query.context = context_str
        /\ StrLen(context_str) <= max_context_chars
        /\ IF StrLen(whole) > max_context_chars
           THEN StrLen(context_str) = max_context_chars /\ IsPrefixOf(context_str, whole)
           ELSE context_str = whole
        /\ outcome = "returned"
        /\ \E i \in 1..Len(trace) : trace[i].op = "generate"

\* a query whose joined passage blocks exceed the budget and were cut inside a block
ContextWithinBudgetWitness ==
  /\ Retrieved
  /\ fault = "none"
  /\ StrLen(JoinBlocks(retrieved_nodes)) > max_context_chars
  /\ StrLen(context_str) = max_context_chars
  /\ Len(context_str) < Len(JoinBlocks(retrieved_nodes))
  /\ context_str[Len(context_str)] # JoinBlocks(retrieved_nodes)[Len(context_str)]

\* C18: the returned sources hold no string twice, hold the string of every
\* retrieved passage, and are ordered by the first occurrence of each string
\* in the retrieved order
SourcesDeduplicated ==
  outcome = "returned" /\ fault \in {"none", "bm25"} =>
    LET First(s) == CHOOSE i \in 1..Len(retrieved_nodes) :
                      /\ SourceStr(retrieved_nodes[i]) = s
                      /\ \A j \in 1..(i - 1) : SourceStr(retrieved_nodes[j]) # s
    IN  /\ result.sources = sources
        /\ \A i, j \in 1..Len(sources) : sources[i] = sources[j] => i = j
        /\ {sources[i] : i \in 1..Len(sources)}
             = {SourceStr(retrieved_nodes[i]) : i \in 1..Len(retrieved_nodes)}
        /\ \A i, j \in 1..Len(sources) : i < j => First(sources[i]) < First(sources[j])

\* a query whose retrieved passages repeat a source string, also a defaulted one
SourcesDeduplicatedWitness ==
  /\ outcome = "returned"
  /\ fault = "none"
  /\ Len(retrieved_nodes) = RETRIEVAL_TOP_K
  /\ Len(sources) < Len(retrieved_nodes)
  /\ \E i \in 1..Len(sources) : sources[i] = "Unbekannt (S. ?)"
  /\ \E i, j \in 1..Len(retrieved_nodes) :
       /\ i + 1 < j
       /\ SourceStr(retrieved_nodes[i]) = SourceStr(retrieved_nodes[j])
       /\ SourceStr(retrieved_nodes[i + 1]) # SourceStr(retrieved_nodes[i])

\* a query in which the index, the retrieval or the generation raised
QueryFailed == outcome # "idle" /\ fault \in {"index", "retrieve", "generate"}

\* C19: when the retrieval or the generation fails, query_knowledge_base
\* raises nothing: it returns one error string with an empty source list and
\* no generated answer text
FailureReturnsErrorString ==
  QueryFailed =>
    /\ outcome = "returned"
    /\ result.sources = <<>>
    /\ Len(result.answer) = 2
    /\ result.answer[1] = ErrorPrefix
    /\ \A i \in 1..Len(result.answer), j \in 1..Len(GeneratedText) :
         result.answer[i] # GeneratedText[j]
    /\ log[Len(log)] = Entry("ERROR", "Query failed")

\* a query whose generation failed after passages were retrieved
FailureReturnsErrorStringWitness ==
  /\ QueryFailed
  /\ fault = "generate"
  /\ retrieved_nodes # <<>>
  /\ outcome = "returned"
  /\ result.sources = <<>>
  /\ result.answer[1] = ErrorPrefix

\* C20: the error string of a failed query never holds the text of the
\* exception that made it fail
ErrorStringHidesException ==
  QueryFailed /\ outcome = "returned" =>
    \A i \in 1..Len(result.answer) : result.answer[i] # ExceptionText[fault]

\* the number of calls of op in the trace of the query
CallCount(op) == Cardinality({i \in 1..Len(trace) : trace[i].op = op})

\* C21: a query calls the generator at most once: once when the retrieval
\* returned, also with no passages, never when the retrieval failed, and
\* not again after the generator call failed
GeneratorCalledOnce ==
  outcome # "idle" =>
    /\ CallCount("generate") <= 1
    /\ Retrieved => CallCount("generate") = 1
    /\ fault \in {"index", "retrieve"} => CallCount("generate") = 0
    /\ fault = "generate" => CallCount("generate") = 1 /\ trace[Len(trace)].op = "generate"

\* a query that retrieved no passage and whose one generator call failed
GeneratorCalledOnceWitness ==
  /\ outcome = "returned"
  /\ fault = "generate"
  /\ retrieved_nodes = <<>>
  /\ CallCount("generate") = 1

\* the place of a call in the pipeline
StepRank(op) == IF op = "expand" THEN 1 ELSE IF op = "retrieve" THEN 2 ELSE 3

\* C22: the steps of a query occur in the order expand, retrieve, assemble
\* context, generate, return: the retriever gets the expanded string, the
\* generator is called after the retrieval with the assembled context, and
\* the prompt carries the question as typed
PipelineOrder ==
  outcome # "idle" =>
    /\ trace # <<>> /\ trace[1] = [op |-> "expand", arg |-> text]
    /\ \A i, j \in 1..Len(trace) : i < j => StepRank(trace[i].op) < StepRank(trace[j].op)
    /\ \A i \in 1..Len(trace) :
         /\ trace[i].op = "retrieve" => trace[i].arg = expanded
         /\ trace[i].op = "generate" =>
              /\ i = 3
              /\ trace[i].arg = full_query
              /\ full_query.context = TruncateContext(JoinBlocks(retrieved_nodes))
              /\ full_query.question = text
    /\ result.answer = GeneratedText => CallCount("generate") = 1

\* a returned query whose question, normalized question and expanded string differ
PipelineOrderWitness ==
  /\ outcome = "returned"
  /\ fault = "none"
  /\ Len(trace) = 3
  /\ retrieved_nodes # <<>>
  /\ text # normalized
  /\ normalized # expanded
  /\ trace[2].arg = expanded
  /\ trace[3].arg.question = text

\* node n left at least one character in the context
InContext(n) == \E i \in 1..Len(context_str) : context_str[i].node = n.id /\ context_str[i].chars > 0

\* C26: the sources come from all retrieved passages, not from the truncated
\* context: a passage whose block was cut off whole still gives its source
\* string, so the sources are those of the untruncated list
SourcesIgnoreTruncation ==
  outcome = "returned" /\ fault \in {"none", "bm25"} =>
    LET all == {SourceStr(retrieved_nodes[i]) : i \in 1..Len(retrieved_nodes)}
    IN  /\ \A i \in 1..Len(retrieved_nodes) :
             \E j \in 1..Len(sources) : sources[j] = SourceStr(retrieved_nodes[i])
        /\ Len(sources) = Cardinality(all)
        /\ result.sources = sources

\* a query whose truncation cut off every passage of one source, which is returned
SourcesIgnoreTruncationWitness ==
  /\ outcome = "returned"
  /\ fault = "none"
  /\ StrLen(JoinBlocks(retrieved_nodes)) > max_context_chars
  /\ \E j \in 1..Len(result.sources) :
       /\ \E i \in 1..Len(retrieved_nodes) : SourceStr(retrieved_nodes[i]) = result.sources[j]
       /\ \A i \in 1..Len(retrieved_nodes) :
            SourceStr(retrieved_nodes[i]) = result.sources[j] => ~InContext(retrieved_nodes[i])

\* C23: after any sequence of normalize_query, classify_domain and
\* expand_query calls of any requests, the two ontologies and the rule list,
\* with every keyword, synonym and context-term list, are as defined at start
OntologyStoreUnchanged ==
  /\ ontology_store.hydraulic = HYDRAULIC_ONTOLOGY
  /\ ontology_store.appliance = APPLIANCE_ONTOLOGY
  /\ ontology_store.rules = CROSS_DOMAIN_RULES

\* a second request was expanded with synonyms and rule terms after a first one
OntologyStoreUnchangedWitness ==
  /\ call = "expand"
  /\ memo # NoMemo
  /\ memo.text # text
  /\ memo.expanded # <<>>
  /\ \E k \in 1..Len(APPLIANCE_ONTOLOGY) :
       /\ Matches(APPLIANCE_ONTOLOGY[k], QueryTokens)
       /\ Range(ontology_store.appliance[k].synonyms) \subseteq expansion_terms
  /\ \E j \in 1..Len(CROSS_DOMAIN_RULES) :
       /\ RuleFires(CROSS_DOMAIN_RULES[j], expansion_terms)
       /\ Range(ontology_store.rules[j].add_terms) \subseteq expansion_terms

\* the rule list in every order
RuleOrders ==
  {[i \in 1..Len(CROSS_DOMAIN_RULES) |-> CROSS_DOMAIN_RULES[p[i]]] :
     p \in Permutations(1..Len(CROSS_DOMAIN_RULES))}

\* the rules that fire in one pass over the list rules, starting from terms
RECURSIVE FiredInPass(_, _)
FiredInPass(rules, terms) ==
  IF rules = <<>> THEN {}
  ELSE IF RuleFires(Head(rules), terms)
       THEN {Head(rules)} \cup FiredInPass(Tail(rules), terms \cup Range(Head(rules).add_terms))
       ELSE FiredInPass(Tail(rules), terms)

\* C27: the rule pass gives the same fired rules, terms and confidence for
\* every order of CROSS_DOMAIN_RULES, and the rules whose condition holds on
\* the final term set are exactly the rules that fired
RulePassOrderIndependent ==
  /\ \A r1, r2 \in Range(CROSS_DOMAIN_RULES) :
       Range(r1.add_terms) \cap Range(r2.condition) = {}
  /\ Expanded =>
    LET base == PatternExpansion(QueryTokens, domain)
        start == [terms |-> base, confidence |-> SelectedWeight(QueryTokens, domain)]
        holding == {r \in Range(CROSS_DOMAIN_RULES) : RuleFires(r, expansion_terms)}
    IN  \A rules \in RuleOrders :
          /\ ApplyRules(rules, start).terms = expansion_terms
          /\ ApplyRules(rules, start).confidence = confidence
          /\ FiredInPass(rules, base) = holding

\* a query for which two rules fire
RulePassOrderIndependentWitness ==
  /\ Expanded
  /\ Cardinality({r \in Range(CROSS_DOMAIN_RULES) : RuleFires(r, expansion_terms)}) = 2
  /\ Cardinality(FiredInPass(CROSS_DOMAIN_RULES, PatternExpansion(QueryTokens, domain))) = 2

\* string k occurs in string t
OccursIn(k, t) == \E i \in 1..(Len(t) - Len(k) + 1) : SubSeq(t, i, i + Len(k) - 1) = k

\* the patterns of an ontology with a keyword equal to a token
TriggeredByToken(ontology, tokens) ==
  {i \in 1..Len(ontology) :
     \E k \in 1..Len(ontology[i].keywords) : \E t \in tokens : ontology[i].keywords[k] = t}

\* C28: a pattern is triggered only by a keyword equal to a token of the
\* normalized query: a keyword with whitespace equals no token, and a keyword
\* that only occurs inside a token does not trigger its pattern
WholeTokenMatch ==
  Classified =>
    /\ hydraulic_score =
         WeightSum(HYDRAULIC_ONTOLOGY, TriggeredByToken(HYDRAULIC_ONTOLOGY, QueryTokens))
    /\ appliance_score =
         WeightSum(APPLIANCE_ONTOLOGY, TriggeredByToken(APPLIANCE_ONTOLOGY, QueryTokens))
    /\ \A t \in QueryTokens : ~OccursIn(" ", t)
    /\ \A o \in {HYDRAULIC_ONTOLOGY, APPLIANCE_ONTOLOGY} : \A i \in 1..Len(o) :
         \A k \in 1..Len(o[i].keywords) :
           OccursIn(" ", o[i].keywords[k]) => o[i].keywords[k] \notin QueryTokens

\* a query that holds the words of 'type code' and a token with 'druck' and
\* 'sensor' inside: only the keyword 'code' counts
WholeTokenMatchWitness ==
  /\ Classified
  /\ QueryTokens = {"drucksensor", "type", "code"}
  /\ OccursIn("druck", "drucksensor") /\ OccursIn("sensor", "drucksensor")
  /\ SubSeq(normalized, Len(normalized) - 2, Len(normalized)) = MultiWord["type code"]
  /\ hydraulic_score = 140
  /\ appliance_score = 0
  /\ domain = HYDRAULIC

\* C24: once remove_document(filename) has completed, with the rebuild
\* succeeding or failing, no later query retrieves a passage or returns a
\* source of that file: every retrieved passage is of a file still uploaded
RemovedFileNeverReturned ==
  handler = "ask" =>
    /\ \A i \in 1..Len(retrieved_nodes) :
         retrieved_nodes[i].source_file \in DOMAIN uploaded_files
    /\ \A i \in 1..Len(result.sources) :
         \E f \in DOMAIN uploaded_files, p \in 1..Len(PageNames) :
           result.sources[i] = SourceStr(Document(f, p))

\* C25: in every session state reachable by login, logout, ingest, rebuild,
\* remove_document and system reset, succeeding or failing, is_ready implies
\* an index that is not None and a non-empty all_documents; so no query is
\* made on a None index
ReadyImpliesIndex ==
  /\ is_ready => index # NoIndex /\ all_documents # <<>>
  /\ handler = "ask" => index # NoIndex /\ fault # "index"

\* a question asked after a failed rebuild left the old index in place
ReadyImpliesIndexWitness ==
  /\ handler = "ask"
  /\ is_ready
  /\ index # NoIndex
  /\ all_documents # <<>>
  /\ collection # all_documents
  /\ outcome = "returned"

\* C29: logout sets authenticated to False and leaves user, messages, index,
\* all_documents, uploaded_files, nodes_for_bm25 and is_ready as they are,
\* and the next successful login finds the chat history and knowledge base
\* of the login before
LogoutKeepsSession ==
  /\ [][Logout =>
          /\ authenticated' = FALSE
          /\ UNCHANGED <<user, messages, index, all_documents, uploaded_files,
                         nodes_for_bm25, is_ready>>]_vars
  /\ [][handler = "logout" /\ Login =>
          /\ authenticated' = TRUE
          /\ UNCHANGED <<messages, index, all_documents, uploaded_files,
                         nodes_for_bm25, is_ready>>]_vars

\* a login that finds the chat history and the index of the login before
LogoutKeepsSessionWitness ==
  /\ handler = "login"
  /\ authenticated
  /\ messages # <<>>
  /\ is_ready
  /\ index # NoIndex
  /\ all_documents # <<>>

\* a measurement of the sample that is present and above its threshold
ParticlesHigh == sample.particle_count # NoValue /\ sample.particle_count > 1000

WaterHigh == sample.water_content # NoValue /\ sample.water_content > 100

\* C30: assess_fluid is OK exactly when no threshold is exceeded, BEOBACHTEN
\* exactly when only particle_count > 1000, KRITISCH exactly when
\* water_content > 0.1, a missing measurement counting as not exceeded; the
\* score is 80 minus 30 per exceeded threshold, within 0..100, and the
\* analysis recommendation is there exactly when the status is not OK
FluidStatusByThresholds ==
  assessment # NoAssessment =>
    LET exceeded == (IF ParticlesHigh THEN 1 ELSE 0) + (IF WaterHigh THEN 1 ELSE 0)
        analysis == \E i \in 1..Len(assessment.recommendations) :
                      assessment.recommendations[i]
                        = "Zeitnahe Analyse durch Fluidservice einplanen."
    IN  /\ assessment.status = "OK" <=> ~ParticlesHigh /\ ~WaterHigh
        /\ assessment.status = "BEOBACHTEN" <=> ParticlesHigh /\ ~WaterHigh
        /\ assessment.status = "KRITISCH" <=> WaterHigh
        /\ assessment.score = 80 - 30 * exceeded
        /\ assessment.score \in 0..100
        /\ analysis <=> assessment.status # "OK"

\* a sample with only the particle count above its threshold, water at 0.1
FluidStatusByThresholdsWitness ==
  /\ assessment # NoAssessment
  /\ sample.particle_count = 1001
  /\ sample.water_content = 100
  /\ assessment.status = "BEOBACHTEN"
  /\ assessment.score = 50
  /\ Len(assessment.recommendations) = 3
=============================================================================
